---------------------------- MODULE Spec2Model ----------------------------
(***************************************************************************)
(* A model of landscape.package.store (HashIdStore, PackageStore,          *)
(* PackageTask) and of the task draining loop of PackageTaskHandler that   *)
(* runs on top of it.  The handler's code is landscape.package.taskhandler;*)
(* its loop is modelled after its description and its tests.               *)
(*                                                                         *)
(* Tables are sets of rows.  A row of the task table carries, besides its  *)
(* four columns, the history field seq: the number of the add_task call    *)
(* that inserted it.  No operation of the store reads seq; it only lets    *)
(* the properties speak about enqueue order.                               *)
(***************************************************************************)
EXTENDS Integers, Sequences, FiniteSets, TLC

\* ------------------------------------------------------------ bounds
\* add_task calls in one behaviour
MaxAdds == 3
\* hash ids are 0..MaxId
MaxId == 2
\* lookaside stores attached at once
MaxStores == 2

Queues == {"default", "other"}
Hashes == {"h1", "h2"}
Ids == 0..MaxId
\* the files offered as lookaside databases
Files == {"L1", "L2"}
\* PackageTaskHandler.queue_name
QueueName == "default"

VARIABLES
    task,      \* the task table: rows [id, queue, timestamp, data, seq]
    now,       \* the last value time.time() returned
    nseq,      \* add_task calls so far
    held,      \* the PackageTask handles the caller has been given
    last,      \* the last call made on the store, with the table before it
    hstate,    \* the handler's run: IDLE, DRAINING, DONE or FAILED
    current,   \* the handle whose per-task operation is outstanding
    opres,     \* per task (by seq): its result object, unfired, ok or fail
    invoked,   \* the tasks (by seq) handle_task was called with in this run
    hresult,   \* what handle_tasks delivered to its caller
    hstore,    \* the hash table of a HashIdStore: rows [id, hash]
    inserted,  \* the pairs set_hash_ids wrote and no later call overwrote
    kept,      \* the pairs set_hash_ids wrote and no later write overwrote
    hcall,     \* the last call made on the store, with the table before it
    hash,      \* the hash table of the PackageStore (its primary mapping)
    files,     \* per file name, what the file holds
    stores,    \* PackageStore._hash_id_stores: the files attached, in order
    lcall,     \* the last add_hash_id_db call, with what it found and raised
    raised,    \* the exception the last call on the store raised, if any
    available, \* the available table: a set of ids
    tables,    \* the names of the tables the store's file holds
    flag,      \* the flag table: rows [name, value]
    request,   \* the hash_id_request table: rows [id, timestamp, hashes]
    rheld,     \* the ids of the HashIDRequest handles the caller has
    rcall,     \* the last call on the request API, with the table before it
    iter,      \* the generator iter_hash_id_requests returned last
    lstate,    \* use_hash_id_db: IDLE, RESOLVING or RESOLVED
    warning,   \* the warnings use_hash_id_db logged in its last run
    ures,      \* the last use_hash_id_db, with what it found
    holders,   \* the processes that hold the lock of the handler's queue
    pstate,    \* per process: idle, started, refused or exited
    pmsg,      \* per process, the message it exited with
    pwork,     \* per process, the task operations and removals it performed
    available_upgrade, \* the available_upgrade table: a set of ids
    installed, \* the installed table: a set of ids
    fset       \* per flag name, the last set_flag call made for it, if any

storeVars == <<task, now, nseq, held, last>>
handlerVars == <<hstate, current, opres, invoked, hresult>>
hashIdVars == <<hstore, inserted, kept, hcall, raised>>
lookasideVars == <<hash, files, stores, lcall>>
atomicVars == <<available, available_upgrade, installed>>
schemaVars == <<tables, flag, fset>>
requestVars == <<request, rheld, rcall, iter>>
resolveVars == <<lstate, warning, ures>>
procVars == <<holders, pstate, pmsg, pwork>>
extVars == <<atomicVars, schemaVars, requestVars, resolveVars, procVars>>
vars == <<task, now, nseq, held, last, hstate, current, opres, invoked,
          hresult, hstore, inserted, kept, hcall, hash, files, stores, lcall,
          raised, available, tables, flag, request, rheld, rcall, iter,
          lstate, warning, ures, holders, pstate, pmsg, pwork,
          available_upgrade, installed, fset>>

\* ------------------------------------------------------------ helpers
Max(S) == CHOOSE x \in S : \A y \in S : y <= x
Range(f) == {f[i] : i \in DOMAIN f}

\* The handle standing for Python's None.
NoTask == [id |-> 0, queue |-> "", timestamp |-> 0, data |-> 0]

\* bpickle.dumps / bpickle.loads of an integer payload ("i<digits>;").
Dumps(d) == <<"i", d>>
Loads(b) == b[2]

\* The rowid SQLite gives a row inserted without one into a table declared
\* "id INTEGER PRIMARY KEY" (no AUTOINCREMENT): one more than the largest
\* rowid in the table, 1 in an empty table.
NewRowId(tbl) == IF tbl = {} THEN 1 ELSE Max({r.id : r \in tbl}) + 1

QueueRows(tbl, queue) == {r \in tbl : r.queue = queue}

\* The handle reading the row added last instead of the row of its id.
PackageTaskLastRow(tbl, id) ==
    LET row == CHOOSE r \in tbl : \A o \in tbl : o.id <= r.id
    IN  [id |-> id, queue |-> row.queue, timestamp |-> row.timestamp,
         data |-> Loads(row.data)]

\* PackageTask.__init__: the handle reads its row once and caches it.
PackageTask(tbl, id) ==
    LET row == CHOOSE r \in tbl : r.id = id
    IN  [id |-> id, queue |-> row.queue, timestamp |-> row.timestamp,
         data |-> Loads(row.data)]

\* The query with the order reversed ("ORDER BY timestamp DESC").
SelectNextTaskNewestFirst(tbl, queue) ==
    LET rows == QueueRows(tbl, queue)
    IN  IF rows = {} THEN 0
        ELSE (CHOOSE r \in rows : \A o \in rows :
                \/ r.timestamp > o.timestamp
                \/ r.timestamp = o.timestamp /\ r.id >= o.id).id

\* The query with the filter inverted ("WHERE queue<>?").
SelectNextTaskOtherQueue(tbl, queue) ==
    LET rows == {r \in tbl : r.queue # queue}
    IN  IF rows = {} THEN 0
        ELSE (CHOOSE r \in rows : \A o \in rows :
                \/ r.timestamp < o.timestamp
                \/ r.timestamp = o.timestamp /\ r.id <= o.id).id

\* "SELECT id FROM task WHERE queue=? ORDER BY timestamp", first row; 0 for
\* no row.  The query names no second sort key: SQLite scans the table in
\* rowid order and rows with equal timestamps leave its sorter in scan order.
SelectNextTask(tbl, queue) ==
    LET rows == QueueRows(tbl, queue)
    IN  IF rows = {} THEN 0
        ELSE (CHOOSE r \in rows : \A o \in rows :
                \/ r.timestamp < o.timestamp
                \/ r.timestamp = o.timestamp /\ r.id <= o.id).id

\* PackageStore.get_next_task on a table.
NextTaskOf(tbl, queue) ==
    LET id == SelectNextTask(tbl, queue)
    IN  IF id # 0 THEN PackageTask(tbl, id) ELSE NoTask

GetNextTask(queue) == NextTaskOf(task, queue)

\* "DELETE FROM task WHERE id=?"
DeleteTask(tbl, id) == {r \in tbl : r.id # id}

\* The delete with the test inverted ("WHERE id IN (<ids>)").
DeleteTasksIn(tbl, ids) == {r \in tbl : r.id \notin ids}

\* The delete confined to the queues of the excepted tasks.
DeleteTasksExceptPerQueue(tbl, ids) ==
    {r \in tbl : \/ r.id \in ids
                 \/ \A o \in tbl : o.id \in ids => o.queue # r.queue}

\* "DELETE FROM task WHERE id NOT IN (<ids>)"; with no id listed every row
\* is deleted.
DeleteTasksExcept(tbl, ids) == {r \in tbl : r.id \in ids}

Call(op, queue, except, pre, result) ==
    [op |-> op, queue |-> queue, except |-> except, pre |-> pre,
     result |-> result]

\* ------------------------------------------------------------ store calls
\* PackageStore.add_task(queue, data).  time.time() returns the value it
\* returned last or a later one; the caller hands in the payloads 0, 1, 2, ...
AddTask(queue, data) ==
    /\ nseq < MaxAdds
    /\ \E t \in {now, now + 1} :
         /\ LET id  == NewRowId(task)
                tbl == task \cup {[id |-> id, queue |-> queue, timestamp |-> t,
                                   data |-> Dumps(data), seq |-> nseq + 1]}
                h   == PackageTask(tbl, id)
            IN  /\ task' = tbl
                /\ now' = t
                /\ nseq' = nseq + 1
                /\ held' = held \cup {h}
                /\ last' = Call("add_task", queue, {}, {}, h)
    /\ UNCHANGED <<handlerVars, hashIdVars, lookasideVars, extVars>>

\* PackageStore.get_next_task(queue), called by the owner of the store.
CallGetNextTask(queue) ==
    LET h == GetNextTask(queue)
    IN  /\ held' = (IF h = NoTask THEN held ELSE held \cup {h})
        /\ last' = Call("get_next_task", queue, {}, {}, h)
        /\ UNCHANGED <<task, now, nseq>>
        /\ UNCHANGED <<handlerVars, hashIdVars, lookasideVars, extVars>>

\* PackageTask.remove() on a retained handle.
Remove(h) ==
    /\ task' = DeleteTask(task, h.id)
    /\ last' = Call("remove", h.queue, {h}, task, NoTask)
    /\ UNCHANGED <<now, nseq, held>>
    /\ UNCHANGED <<handlerVars, hashIdVars, lookasideVars, extVars>>

\* PackageStore.clear_tasks(except_tasks)
ClearTasks(except) ==
    /\ task' = DeleteTasksExcept(task, {h.id : h \in except})
    /\ last' = Call("clear_tasks", "", except, task, NoTask)
    /\ UNCHANGED <<now, nseq, held>>
    /\ UNCHANGED <<handlerVars, hashIdVars, lookasideVars, extVars>>

\* ------------------------------------------------------------ the handler
SeqOf(tbl, id) == (CHOOSE r \in tbl : r.id = id).seq

Unfired == [s \in 1..MaxAdds |-> "unfired"]

Delivered(kind, s) == [kind |-> kind, seq |-> s]

\* The draining loop from its fetch of the next task up to the point where it
\* suspends or ends: fetch the oldest task of the handler's queue; none left,
\* the run is DONE; otherwise call handle_task with it; while its result is
\* outstanding the loop is suspended on it; a failed result ends the run
\* FAILED with the task left in the store; a successful one removes the task
\* and the loop goes on with the next.
RECURSIVE Drain(_, _, _)
Drain(tbl, res, log) ==
    LET t == NextTaskOf(tbl, QueueName)
    IN  IF t = NoTask
        THEN [task |-> tbl, hstate |-> "DONE", current |-> NoTask,
              invoked |-> log, hresult |-> Delivered("success", 0)]
        ELSE LET s == SeqOf(tbl, t.id)
                 log2 == Append(log, s)
             IN  CASE res[s] = "unfired" ->
                        [task |-> tbl, hstate |-> "DRAINING", current |-> t,
                         invoked |-> log2, hresult |-> Delivered("pending", 0)]
                   [] res[s] = "fail" ->
                        [task |-> tbl, hstate |-> "FAILED", current |-> NoTask,
                         invoked |-> log2, hresult |-> Delivered("failure", s)]
                   [] res[s] = "ok" ->
                        Drain(DeleteTask(tbl, t.id), res, log2)

Resume(d) ==
    /\ task' = d.task
    /\ hstate' = d.hstate
    /\ current' = d.current
    /\ invoked' = d.invoked
    /\ hresult' = d.hresult

\* PackageTaskHandler.handle_tasks(): a run starts; each run's calls of
\* handle_task return result objects of their own.
HandleTasksStep ==
    /\ hstate # "DRAINING"
    /\ opres' = Unfired
    /\ Resume(Drain(task, Unfired, <<>>))
    /\ UNCHANGED <<now, nseq, held, last>>

HandleTasks ==
    /\ HandleTasksStep
    /\ UNCHANGED <<hashIdVars, lookasideVars, extVars>>

\* PackageTaskHandler.run(): it returns what handle_tasks() returns.
Run == HandleTasks

\* The result object of the task numbered s fires with outcome; when it is
\* the one the loop is suspended on, the loop resumes.
FireStep(s, outcome) ==
    /\ hstate = "DRAINING"
    /\ \E r \in QueueRows(task, QueueName) : r.seq = s
    /\ opres[s] = "unfired"
    /\ opres' = [opres EXCEPT ![s] = outcome]
    /\ IF s = SeqOf(task, current.id)
       THEN IF outcome = "ok"
            THEN Resume(Drain(DeleteTask(task, current.id), opres', invoked))
            ELSE /\ hstate' = "FAILED"
                 /\ current' = NoTask
                 /\ hresult' = Delivered("failure", s)
                 /\ UNCHANGED <<task, invoked>>
       ELSE UNCHANGED <<task, hstate, current, invoked, hresult>>
    /\ UNCHANGED <<now, nseq, held, last>>

Fire(s, outcome) ==
    /\ FireStep(s, outcome)
    /\ UNCHANGED <<hashIdVars, lookasideVars, extVars>>

\* ------------------------------------------------------------ processes
\* The processes started for the handler's queue on one data path.
Procs == {"p1", "p2"}

\* A lock that every process is given.
LockPathShared(hs, p) == "ok"

\* lock_path on "<data-path>/package/<queue-name>.lock": an exclusive lock,
\* not waited for; LockError when a process holds it.
LockPath(hs, p) == IF hs = {} THEN "ok" ELSE "LockError"

\* The message of the SystemExit raised when the lock is held.
AlreadyRunning(quiet) ==
    IF quiet THEN <<>> ELSE <<"error:", QueueName, "is already running">>

Message(quiet, text) == [quiet |-> quiet, text |-> text]

\* run_task_handler(cls, args) in process p, up to the start of the
\* reactor: the lock is taken, or the process exits with the message.
RunTaskHandler(p, quiet) ==
    /\ pstate[p] = "idle"
    /\ IF LockPath(holders, p) = "ok"
       THEN /\ holders' = holders \cup {p}
            /\ pstate' = [pstate EXCEPT ![p] = "started"]
            /\ pmsg' = [pmsg EXCEPT ![p] = Message(quiet, <<>>)]
       ELSE /\ holders' = holders
            /\ pstate' = [pstate EXCEPT ![p] = "refused"]
            /\ pmsg' = [pmsg EXCEPT ![p] = Message(quiet, AlreadyRunning(quiet))]
    /\ pwork' = [pwork EXCEPT ![p] = FALSE]
    /\ UNCHANGED <<storeVars, handlerVars, hashIdVars, lookasideVars,
                   atomicVars, schemaVars, requestVars, resolveVars>>

\* The reactor of process p calls the handler's run().
ProcRun(p) ==
    /\ pstate[p] = "started"
    /\ hstate = "IDLE"
    /\ HandleTasksStep
    /\ pwork' = [pwork EXCEPT ![p] = @ \/ invoked' # <<>>]
    /\ UNCHANGED <<holders, pstate, pmsg, hashIdVars, lookasideVars,
                   atomicVars, schemaVars, requestVars, resolveVars>>

\* In process p the result of the task numbered s fires.
ProcFire(p, s, outcome) ==
    /\ pstate[p] = "started"
    /\ FireStep(s, outcome)
    /\ pwork' = [pwork EXCEPT ![p] = @ \/ invoked' # invoked \/ task' # task]
    /\ UNCHANGED <<holders, pstate, pmsg, hashIdVars, lookasideVars,
                   atomicVars, schemaVars, requestVars, resolveVars>>

\* The run of process p has ended: the reactor stops and the process exits,
\* its handler and its lock with it.
ProcExit(p) ==
    /\ pstate[p] = "started"
    /\ hstate \in {"DONE", "FAILED"}
    /\ holders' = holders \ {p}
    /\ pstate' = [pstate EXCEPT ![p] = "exited"]
    /\ hstate' = "IDLE"
    /\ current' = NoTask
    /\ opres' = Unfired
    /\ invoked' = <<>>
    /\ hresult' = Delivered("none", 0)
    /\ UNCHANGED <<pmsg, pwork, storeVars, hashIdVars, lookasideVars,
                   atomicVars, schemaVars, requestVars, resolveVars>>

\* Another process is started in the place of one that has exited.
Restart(p) ==
    /\ pstate[p] \in {"refused", "exited"}
    /\ pstate' = [pstate EXCEPT ![p] = "idle"]
    /\ UNCHANGED <<holders, pmsg, pwork, storeVars, handlerVars, hashIdVars,
                   lookasideVars, atomicVars, schemaVars, requestVars,
                   resolveVars>>

\* ------------------------------------------------------------ HashIdStore
\* Python's None where an id, and where a hash, is expected.
NoId == -1
NoHash == ""

\* The REPLACE on a table whose hash column is not UNIQUE.
ReplaceByIdOnly(tbl, id, h) ==
    {r \in tbl : r.id # id} \cup {[id |-> id, hash |-> h]}

\* "REPLACE INTO hash VALUES (?, ?)" on a table declared
\* (id INTEGER PRIMARY KEY, hash BLOB UNIQUE): the rows that hold the new
\* row's id or its hash are deleted, then the new row is inserted.
Replace(tbl, id, h) ==
    {r \in tbl : r.id # id /\ r.hash # h} \cup {[id |-> id, hash |-> h]}

\* HashIdStore.set_hash_ids on a table; items is the dict in the order
\* iteritems() yields it.
RECURSIVE ApplyItems(_, _)
ApplyItems(tbl, items) ==
    IF items = <<>> THEN tbl
    ELSE ApplyItems(Replace(tbl, Head(items).id, Head(items).hash), Tail(items))

\* HashIdStore.get_hash_id on a table.
GetHashIdIn(tbl, h) ==
    IF \E r \in tbl : r.hash = h
    THEN (CHOOSE r \in tbl : r.hash = h).id
    ELSE NoId

\* HashIdStore.get_id_hash on a table.
GetIdHashIn(tbl, id) ==
    IF \E r \in tbl : r.id = id
    THEN (CHOOSE r \in tbl : r.id = id).hash
    ELSE NoHash

Pair(h, id) == [hash |-> h, id |-> id]

\* The dicts set_hash_ids is called with, each in every order its items can
\* be yielded in: sequences of pairs with distinct hashes.
Dicts ==
    {<<>>}
    \cup {<<Pair(h, i)>> : h \in Hashes, i \in Ids}
    \cup {<<Pair(h1, i1), Pair(h2, i2)>> :
            <<h1, h2, i1, i2>> \in
              {x \in Hashes \X Hashes \X Ids \X Ids : x[1] # x[2]}}

\* x, written after p, overwrites p.
Overwrites(x, p) == x # p /\ (x.hash = p.hash \/ x.id = p.id)

\* The pairs of S and of items that no pair of a later call has overwritten,
\* items being the latest call.
InsertedAfter(S, items) ==
    {p \in S : \A k \in DOMAIN items : ~Overwrites(items[k], p)}
      \cup {items[k] : k \in DOMAIN items}

\* The pairs of S and of items that no pair written later has overwritten.
RECURSIVE KeptAfter(_, _)
KeptAfter(S, items) ==
    IF items = <<>> THEN S
    ELSE KeptAfter({p \in S : ~Overwrites(Head(items), p)} \cup {Head(items)},
                   Tail(items))

HashCall(op, items, pre) == [op |-> op, items |-> items, pre |-> pre]

\* An exception and the position, in the argument of the call, of the item
\* at which it was raised.
Error(exc, at) == [exc |-> exc, at |-> at]
NoError == Error("none", 0)

\* What the body of a method came to: the table as the body left it inside
\* its transaction, and what it raised.
Ran(tbl, err) == [tbl |-> tbl, raised |-> err]

\* The decorator with its except clause committing instead of rolling back.
WithCursorNoRollback(pre, run) == run.tbl

\* with_cursor(method): the table after the call.  The writes of the body
\* are committed when the body returns and rolled back when it raises; what
\* it raised is raised again to the caller.
WithCursor(pre, run) == IF run.raised = NoError THEN run.tbl ELSE pre

\* The body of set_hash_ids.  bad is the position of an item whose id is no
\* integer, 0 when there is none: SQLite refuses that item's REPLACE with
\* IntegrityError (datatype mismatch), after the items before it were written.
SetHashIdsBody(tbl, items, bad) ==
    IF bad = 0 THEN Ran(ApplyItems(tbl, items), NoError)
    ELSE Ran(ApplyItems(tbl, SubSeq(items, 1, bad - 1)),
             Error("IntegrityError", bad))

\* HashIdStore.set_hash_ids(hash_ids), the call as a whole.
SetHashIdsCall(items, bad) ==
    LET run == SetHashIdsBody(hstore, items, bad)
        ok  == run.raised = NoError
    IN  /\ hstore' = WithCursor(hstore, run)
        /\ raised' = run.raised
        /\ inserted' = (IF ok THEN InsertedAfter(inserted, items) ELSE inserted)
        /\ kept' = (IF ok THEN KeptAfter(kept, items) ELSE kept)
        /\ hcall' = HashCall("set_hash_ids", items, hstore)
        /\ UNCHANGED <<storeVars, handlerVars, lookasideVars, extVars>>

\* HashIdStore.set_hash_ids(hash_ids) with a well-formed dict.
SetHashIds(items) == SetHashIdsCall(items, 0)

\* HashIdStore.clear_hash_ids()
ClearHashIds ==
    /\ hstore' = {}
    /\ inserted' = {}
    /\ kept' = {}
    /\ hcall' = HashCall("clear_hash_ids", <<>>, hstore)
    /\ raised' = NoError
    /\ UNCHANGED <<storeVars, handlerVars, lookasideVars, extVars>>

\* The body of add_available: "REPLACE INTO available VALUES (?)" for each id
\* in turn; bad as in SetHashIdsBody.
AddAvailableBody(tbl, ids, bad) ==
    IF bad = 0 THEN Ran(tbl \cup Range(ids), NoError)
    ELSE Ran(tbl \cup Range(SubSeq(ids, 1, bad - 1)),
             Error("IntegrityError", bad))

\* PackageStore.add_available(ids); the store's inherited hash table is
\* hstore.
AddAvailable(ids, bad) ==
    LET run == AddAvailableBody(available, ids, bad)
    IN  /\ available' = WithCursor(available, run)
        /\ raised' = run.raised
        /\ hcall' = HashCall("add_available", ids, available)
        /\ UNCHANGED <<hstore, inserted, kept, available_upgrade, installed>>
        /\ UNCHANGED <<storeVars, handlerVars, lookasideVars, schemaVars,
                       requestVars, resolveVars, procVars>>

\* PackageStore.clear_available()
ClearAvailable ==
    /\ available' = {}
    /\ raised' = NoError
    /\ hcall' = HashCall("clear_available", <<>>, available)
    /\ UNCHANGED <<hstore, inserted, kept, available_upgrade, installed>>
    /\ UNCHANGED <<storeVars, handlerVars, lookasideVars, schemaVars,
                   requestVars, resolveVars, procVars>>

\* PackageStore.add_available_upgrades(ids) and add_installed(ids), with
\* ids that are integers.
AddAvailableUpgrades(ids) ==
    /\ available_upgrade' =
         WithCursor(available_upgrade, AddAvailableBody(available_upgrade, ids, 0))
    /\ raised' = NoError
    /\ hcall' = HashCall("add_available_upgrades", ids, available_upgrade)
    /\ UNCHANGED <<hstore, inserted, kept, available, installed>>
    /\ UNCHANGED <<storeVars, handlerVars, lookasideVars, schemaVars,
                   requestVars, resolveVars, procVars>>

AddInstalled(ids) ==
    /\ installed' = WithCursor(installed, AddAvailableBody(installed, ids, 0))
    /\ raised' = NoError
    /\ hcall' = HashCall("add_installed", ids, installed)
    /\ UNCHANGED <<hstore, inserted, kept, available, available_upgrade>>
    /\ UNCHANGED <<storeVars, handlerVars, lookasideVars, schemaVars,
                   requestVars, resolveVars, procVars>>

\* ",".join(str(int(id)) for id in ids): the integers between the brackets
\* of "IN (...)", in the order given; none for no id.
IdList(ids) == [i \in DOMAIN ids |-> ids[i]]

\* The statement without its WHERE clause when no id is listed.
DeleteInOrAll(tbl, id_list) ==
    IF id_list = <<>> THEN {} ELSE {x \in tbl : x \notin Range(id_list)}

\* "DELETE FROM <table> WHERE id IN (<id_list>)"; SQLite takes the empty
\* list "IN ()" and finds no row in it.
DeleteIn(tbl, id_list) == {x \in tbl : x \notin Range(id_list)}

\* The body of remove_available, remove_available_upgrades and
\* remove_installed.
RemoveBody(tbl, ids) == Ran(DeleteIn(tbl, IdList(ids)), NoError)

\* PackageStore.remove_available(ids)
RemoveAvailable(ids) ==
    LET run == RemoveBody(available, ids)
    IN  /\ available' = WithCursor(available, run)
        /\ raised' = run.raised
        /\ hcall' = HashCall("remove_available", ids, available)
        /\ UNCHANGED <<hstore, inserted, kept, available_upgrade, installed>>
        /\ UNCHANGED <<storeVars, handlerVars, lookasideVars, schemaVars,
                       requestVars, resolveVars, procVars>>

\* PackageStore.remove_available_upgrades(ids)
RemoveAvailableUpgrades(ids) ==
    LET run == RemoveBody(available_upgrade, ids)
    IN  /\ available_upgrade' = WithCursor(available_upgrade, run)
        /\ raised' = run.raised
        /\ hcall' = HashCall("remove_available_upgrades", ids, available_upgrade)
        /\ UNCHANGED <<hstore, inserted, kept, available, installed>>
        /\ UNCHANGED <<storeVars, handlerVars, lookasideVars, schemaVars,
                       requestVars, resolveVars, procVars>>

\* PackageStore.remove_installed(ids)
RemoveInstalled(ids) ==
    LET run == RemoveBody(installed, ids)
    IN  /\ installed' = WithCursor(installed, run)
        /\ raised' = run.raised
        /\ hcall' = HashCall("remove_installed", ids, installed)
        /\ UNCHANGED <<hstore, inserted, kept, available, available_upgrade>>
        /\ UNCHANGED <<storeVars, handlerVars, lookasideVars, schemaVars,
                       requestVars, resolveVars, procVars>>

GetHashId(h) == GetHashIdIn(hstore, h)
GetIdHash(id) == GetIdHashIn(hstore, id)

\* ------------------------------------------------------------ lookaside
\* What a file holds: nothing (no such file, "absent"), junk, an SQLite
\* database without a hash table ("nohash"), one whose hash table has other
\* columns than id and hash ("badhash"), or one with the hash table and its
\* rows ("hashdb").
File(kind, rows) == [kind |-> kind, rows |-> rows]

\* HashIdStore.__init__ on a file: sqlite3.connect, which creates the file
\* that is not there, and ensure_hash_id_schema, which creates the hash
\* table where there is none and gives up on a file that is no database or
\* has a table of that name.
OpenHashIdStore(file) ==
    IF file.kind \in {"absent", "nohash"} THEN File("hashdb", {}) ELSE file

\* HashIdStore.check_sanity on the file the constructor left: what
\* "SELECT id FROM hash WHERE hash=?" makes it raise.
CheckSanity(file) ==
    IF file.kind = "hashdb" THEN "none" ELSE "InvalidHashIdDb"

LookasideCall(op, file, exc) == [op |-> op, file |-> file, raised |-> exc]

\* Python's "if id:".
Truthy(id) == id # NoId /\ id # 0

\* PackageStore.get_hash_id: the attached stores in order, then the primary.
RECURSIVE LookasideGetHashId(_, _)
LookasideGetHashId(ss, h) ==
    IF ss = <<>> THEN GetHashIdIn(hash, h)
    ELSE LET id == GetHashIdIn(files[Head(ss)].rows, h)
         IN  IF Truthy(id) THEN id ELSE LookasideGetHashId(Tail(ss), h)

PackageGetHashId(h) == LookasideGetHashId(stores, h)

\* A file that is no lookaside database appears under the name f.
CreateFile(f, kind) ==
    /\ files[f].kind = "absent"
    /\ files' = [files EXCEPT ![f] = File(kind, {})]
    /\ UNCHANGED <<storeVars, handlerVars, hashIdVars, hash, stores, lcall,
                   extVars>>

\* HashIdStore(filename).set_hash_ids(hash_ids): a lookaside file is
\* provisioned.
WriteLookaside(f, items) ==
    /\ files[f].kind \notin {"junk", "badhash"}
    /\ files' = [files EXCEPT
                   ![f] = File("hashdb",
                               ApplyItems(OpenHashIdStore(files[f]).rows, items))]
    /\ UNCHANGED <<storeVars, handlerVars, hashIdVars, hash, stores, lcall,
                   extVars>>

\* The body of add_hash_id_db(filename) on the files fs and the list ss of
\* attached stores: the files and the list it leaves and what it raises.
Attach(fs, ss, f) ==
    LET opened == OpenHashIdStore(fs[f])
        exc    == CheckSanity(opened)
    IN  [files  |-> [fs EXCEPT ![f] = opened],
         stores |-> IF exc = "none" THEN Append(ss, f) ELSE ss,
         raised |-> exc]

\* PackageStore.add_hash_id_db(filename)
AddHashIdDb(f) ==
    /\ Len(stores) < MaxStores
    /\ LET done == Attach(files, stores, f)
       IN  /\ files' = done.files
           /\ stores' = done.stores
           /\ lcall' = LookasideCall("add_hash_id_db", f, done.raised)
    /\ UNCHANGED <<storeVars, handlerVars, hashIdVars, hash, extVars>>

\* HashIdStore(filename).check_sanity(), as a caller validating a file does.
CheckFile(f) ==
    /\ LET opened == OpenHashIdStore(files[f])
       IN  /\ files' = [files EXCEPT ![f] = opened]
           /\ lcall' = LookasideCall("check_sanity", f, CheckSanity(opened))
    /\ UNCHANGED <<storeVars, handlerVars, hashIdVars, hash, stores, extVars>>

\* PackageStore.set_hash_ids(hash_ids), inherited from HashIdStore.
PrimarySetHashIds(items) ==
    /\ hash' = ApplyItems(hash, items)
    /\ UNCHANGED <<storeVars, handlerVars, hashIdVars, files, stores, lcall,
                   extVars>>

\* PackageStore.clear_hash_ids(), inherited from HashIdStore.
PrimaryClearHashIds ==
    /\ hash' = {}
    /\ UNCHANGED <<storeVars, handlerVars, hashIdVars, files, stores, lcall,
                   extVars>>

\* ------------------------------------------------------------ use_hash_id_db
\* Python's None where a string is expected.
NoName == ""

\* What the broker, the lsb-release file and the facade can answer.
Uuids == {NoName, "uuid"}
Codenames == {NoName, "c1", "c2"}
Archs == {NoName, "arch"}

\* The warnings of _determine_hash_id_db_filename and of use_hash_id_db.
NoUuidWarning == <<"server UUID not available">>
NoCodenameWarning == <<"missing code-name key in", "lsb-release">>
NoArchWarning == <<"unknown dpkg architecture">>
InvalidWarning(f) == <<"Invalid hash=>id database", f>>

\* _determine_hash_id_db_filename: the file named after the identity triple,
\* "<uuid>_<codename>_<arch>" in the hash-id directory, or None with a
\* warning for the first part that is missing.
DetermineHashIdDbFilename(uuid, codename, arch) ==
    CASE uuid = NoName -> [name |-> NoName, warning |-> <<NoUuidWarning>>]
      [] codename = NoName -> [name |-> NoName, warning |-> <<NoCodenameWarning>>]
      [] arch = NoName -> [name |-> NoName, warning |-> <<NoArchWarning>>]
      [] OTHER -> [name |-> IF codename = "c1" THEN "L1" ELSE "L2",
                   warning |-> <<>>]

\* The test treating every file as being there.
OsPathExistsAlways(file) == TRUE

\* os.path.exists
OsPathExists(file) == file.kind # "absent"

\* os.remove
OsRemove(fs, f) == [fs EXCEPT ![f] = File("absent", {})]

Resolved(uuid, codename, arch, name) ==
    [uuid |-> uuid, codename |-> codename, arch |-> arch, name |-> name]

\* PackageTaskHandler.use_hash_id_db() up to the point where it waits for
\* the broker's answer to get_server_uuid.
UseHashIdDb ==
    /\ lstate # "RESOLVING"
    /\ Len(stores) < MaxStores
    /\ lstate' = "RESOLVING"
    /\ warning' = <<>>
    /\ UNCHANGED <<ures, storeVars, handlerVars, hashIdVars, lookasideVars,
                   atomicVars, schemaVars, requestVars, procVars>>

\* The broker's answer arrives and use_hash_id_db goes on to its end: no
\* file name, or no file of that name, and nothing is attached; otherwise
\* add_hash_id_db, and when that raises InvalidHashIdDb a warning and the
\* removal of the file.  The Deferred it returned fires with success.
GotServerUuid(uuid, codename, arch) ==
    /\ lstate = "RESOLVING"
    /\ LET found == DetermineHashIdDbFilename(uuid, codename, arch)
           f     == found.name
       IN  /\ ures' = Resolved(uuid, codename, arch, f)
           /\ IF f = NoName \/ ~OsPathExists(files[f])
              THEN /\ warning' = found.warning
                   /\ UNCHANGED <<files, stores, lcall>>
              ELSE LET done == Attach(files, stores, f)
                   IN  /\ stores' = done.stores
                       /\ lcall' = LookasideCall("add_hash_id_db", f, done.raised)
                       /\ IF done.raised = "InvalidHashIdDb"
                          THEN /\ warning' = <<InvalidWarning(f)>>
                               /\ files' = OsRemove(done.files, f)
                          ELSE /\ warning' = <<>>
                               /\ files' = done.files
    /\ lstate' = "RESOLVED"
    /\ UNCHANGED <<hash, storeVars, handlerVars, hashIdVars, atomicVars,
                   schemaVars, requestVars, procVars>>

\* ------------------------------------------------------------ schema
\* The tables ensure_package_schema creates, in the order it creates them.
PackageTables ==
    <<"flag", "available", "available_upgrade", "installed",
      "hash_id_request", "task">>

AllTables == {"hash"} \cup Range(PackageTables)

\* A database: the names of its tables and, per table, its rows.
Database(names, rows) == [tables |-> names, rows |-> rows]

\* The statement replacing a table that is there.
CreateOrReplaceTable(db, name) ==
    Ran(Database(db.tables \cup {name}, [db.rows EXCEPT ![name] = {}]),
        NoError)

\* "CREATE TABLE <name> (...)": OperationalError when the database has a
\* table of that name, an empty table otherwise.  The sqlite3 module opens
\* no transaction for it: the table is there whatever is rolled back later.
CreateTable(db, name) ==
    IF name \in db.tables
    THEN Ran(db, Error("OperationalError", 0))
    ELSE Ran(Database(db.tables \cup {name}, [db.rows EXCEPT ![name] = {}]),
             NoError)

\* ensure_hash_id_schema(db): the exception of the CREATE TABLE is caught.
EnsureHashIdSchema(db) == CreateTable(db, "hash").tbl

\* ensure_package_schema(db): the first CREATE TABLE that raises ends the
\* try block, and the exception is caught.
RECURSIVE CreateTables(_, _)
CreateTables(db, names) ==
    IF names = <<>> THEN db
    ELSE LET run == CreateTable(db, Head(names))
         IN  IF run.raised = NoError
             THEN CreateTables(run.tbl, Tail(names))
             ELSE run.tbl

EnsurePackageSchema(db) == CreateTables(db, PackageTables)

FlagNames == {"f1", "f2"}

\* A set_flag call with its value, and no call.
FlagSet(value) == [set |-> TRUE, value |-> value]
FlagUnset == [set |-> FALSE, value |-> FALSE]

\* The query without its WHERE clause.
GetFlagInAnyRow(tbl, name) ==
    IF tbl # {} THEN (CHOOSE r \in tbl : TRUE).value ELSE FALSE

\* PackageStore.get_flag(name) on a table.
GetFlagIn(tbl, name) ==
    IF \E r \in tbl : r.name = name
    THEN (CHOOSE r \in tbl : r.name = name).value
    ELSE FALSE

\* PackageStore.set_flag(name, value): "REPLACE INTO flag VALUES (?, ?)"
SetFlag(name, value) ==
    /\ flag' = {r \in flag : r.name # name}
                  \cup {[name |-> name, value |-> value]}
    /\ fset' = [fset EXCEPT ![name] = FlagSet(value)]
    /\ UNCHANGED <<tables, storeVars, handlerVars, hashIdVars, lookasideVars,
                   atomicVars, requestVars, resolveVars, procVars>>

\* PackageStore(filename) on the file of the store: a second instance.  The
\* constructor connects and runs ensure_hash_id_schema and
\* ensure_package_schema on what the file holds.
Reopen ==
    LET db == Database(tables,
                       [n \in AllTables |->
                          CASE n = "hash" -> hash
                            [] n = "flag" -> flag
                            [] n = "available" -> available
                            [] n = "available_upgrade" -> available_upgrade
                            [] n = "installed" -> installed
                            [] n = "hash_id_request" -> request
                            [] n = "task" -> task
                            [] OTHER -> {}])
        opened == EnsurePackageSchema(EnsureHashIdSchema(db))
    IN  /\ tables' = opened.tables
        /\ hash' = opened.rows["hash"]
        /\ flag' = opened.rows["flag"]
        /\ available' = opened.rows["available"]
        /\ available_upgrade' = opened.rows["available_upgrade"]
        /\ installed' = opened.rows["installed"]
        /\ request' = opened.rows["hash_id_request"]
        /\ task' = opened.rows["task"]
        /\ last' = Call("PackageStore", "", {}, task, NoTask)
        /\ UNCHANGED <<now, nseq, held, files, stores, lcall, rheld, rcall,
                       iter, fset, handlerVars, hashIdVars, resolveVars, procVars>>

\* ------------------------------------------------------------ requests
\* bpickle.dumps of a list of hashes: "l", each string as "s<length>:" and
\* its bytes, then ";".  A string is one token after its "s" here.
RECURSIVE DumpsItems(_)
DumpsItems(l) ==
    IF l = <<>> THEN <<>> ELSE <<"s", Head(l)>> \o DumpsItems(Tail(l))

DumpsList(l) == <<"l">> \o DumpsItems(l) \o <<";">>

\* bpickle.loads of such a string: the items between "l" and ";", in the
\* order they stand in.
LoadsList(b) == [i \in 1..((Len(b) - 2) \div 2) |-> b[2 * i + 1]]

\* The lists of hashes add_hash_id_request is called with.
HashLists == {<<h>> : h \in Hashes}

\* The lists of two different hashes, in either order.
OrderedHashLists == {y \in Hashes \X Hashes : y[1] # y[2]}

\* HashIDRequest.hashes of the handle with this id.
RequestHashes(tbl, id) == LoadsList((CHOOSE r \in tbl : r.id = id).hashes)

\* The ids a caller may ask get_hash_id_request for: those a request can
\* have and two no request has.
RequestIds == 0..(MaxAdds + 1)

RequestCall(op, id, err) == [op |-> op, id |-> id, raised |-> err]

\* The rows of a table by id, in the order a scan of the table yields them.
RECURSIVE IdsInOrder(_)
IdsInOrder(S) ==
    IF S = {} THEN <<>>
    ELSE LET m == CHOOSE x \in S : \A y \in S : x <= y
         IN  <<m>> \o IdsInOrder(S \ {m})

\* The query without its WHERE clause.
SelectRequestAny(tbl, id) == tbl

\* "SELECT 1 FROM hash_id_request WHERE id=?"
SelectRequest(tbl, id) == {r \in tbl : r.id = id}

\* The body of get_hash_id_request.
GetHashIdRequestBody(tbl, id) ==
    IF SelectRequest(tbl, id) = {}
    THEN Ran(tbl, Error("UnknownHashIDRequest", 0))
    ELSE Ran(tbl, NoError)

\* A generator that has not been made, and one in state st: atcall is the
\* ids the table held when iter_hash_id_requests was called, buf the
\* handles fetched and not yet yielded, out those yielded.
Generator(st, atcall, buf, out) ==
    [state |-> st, atcall |-> atcall, buf |-> buf, out |-> out]
NoGenerator == Generator("none", <<>>, <<>>, <<>>)

\* PackageStore.add_hash_id_request(hashes); the clock stands where the
\* last add_task left it.
AddHashIdRequest(hashes) ==
    /\ NewRowId(request) <= MaxAdds
    /\ LET id == NewRowId(request)
       IN  /\ request' = request \cup {[id |-> id, timestamp |-> now,
                                        message_id |-> NoId,
                                        hashes |-> DumpsList(hashes)]}
           /\ rheld' = rheld \cup {id}
           /\ rcall' = RequestCall("add_hash_id_request", id, NoError)
    /\ UNCHANGED <<iter, storeVars, handlerVars, hashIdVars, lookasideVars,
                   atomicVars, schemaVars, resolveVars, procVars>>

\* PackageStore.get_hash_id_request(request_id)
GetHashIdRequest(id) ==
    /\ LET run == GetHashIdRequestBody(request, id)
       IN  /\ request' = WithCursor(request, run)
           /\ rheld' = (IF run.raised = NoError THEN rheld \cup {id} ELSE rheld)
           /\ rcall' = RequestCall("get_hash_id_request", id, run.raised)
    /\ UNCHANGED <<iter, storeVars, handlerVars, hashIdVars, lookasideVars,
                   atomicVars, schemaVars, resolveVars, procVars>>

\* HashIDRequest.remove() on a handle the caller has.
RequestRemove(id) ==
    /\ request' = {r \in request : r.id # id}
    /\ rcall' = RequestCall("remove", id, NoError)
    /\ UNCHANGED <<rheld, iter, storeVars, handlerVars, hashIdVars,
                   lookasideVars, atomicVars, schemaVars, resolveVars,
                   procVars>>

\* What reading a field through a handle gives: the value, or the TypeError
\* of subscripting the None that fetchone returns for a row that is gone.
Read(err, value) == [raised |-> err, value |-> value]

\* HashIDRequest._get_message_id and _get_timestamp of the handle with this
\* id, on a table.
RequestField(tbl, id, field) ==
    IF SelectRequest(tbl, id) = {}
    THEN Read(Error("TypeError", 0), NoId)
    ELSE Read(NoError, (CHOOSE r \in tbl : r.id = id)[field])

\* The values a caller sets message_id and timestamp to.
FieldValues == {1, 2}

\* The update written as a REPLACE of the row, which leaves the columns it
\* does not name empty.
ReplaceRequest(tbl, id, field, value) ==
    {r \in tbl : r.id # id}
      \cup {[[id |-> id, timestamp |-> 0, message_id |-> NoId,
              hashes |-> <<>>] EXCEPT ![field] = value]}

\* "UPDATE hash_id_request SET <field>=? WHERE id=?"
UpdateRequest(tbl, id, field, value) ==
    {IF r.id = id THEN [r EXCEPT ![field] = value] ELSE r : r \in tbl}

\* HashIDRequest._set_message_id(value) on a handle the caller has.
SetMessageId(id, value) ==
    /\ request' = UpdateRequest(request, id, "message_id", value)
    /\ rcall' = RequestCall("set_message_id", id, NoError)
    /\ UNCHANGED <<rheld, iter, storeVars, handlerVars, hashIdVars,
                   lookasideVars, atomicVars, schemaVars, resolveVars,
                   procVars>>

\* HashIDRequest._set_timestamp(value) on a handle the caller has.
SetTimestamp(id, value) ==
    /\ request' = UpdateRequest(request, id, "timestamp", value)
    /\ rcall' = RequestCall("set_timestamp", id, NoError)
    /\ UNCHANGED <<rheld, iter, storeVars, handlerVars, hashIdVars,
                   lookasideVars, atomicVars, schemaVars, resolveVars,
                   procVars>>

\* PackageStore.clear_hash_id_requests()
ClearHashIdRequests ==
    /\ request' = {}
    /\ rcall' = RequestCall("clear_hash_id_requests", 0, NoError)
    /\ UNCHANGED <<rheld, iter, storeVars, handlerVars, hashIdVars,
                   lookasideVars, atomicVars, schemaVars, resolveVars,
                   procVars>>

\* PackageStore.iter_hash_id_requests().  The method is a generator
\* function: the call that with_cursor wraps makes the generator and runs
\* none of its body, and the cursor is closed and the transaction committed
\* before the caller has the generator.
IterHashIdRequests ==
    /\ iter' = Generator("created", IdsInOrder({r.id : r \in request}),
                         <<>>, <<>>)
    /\ rcall' = RequestCall("iter_hash_id_requests", 0, NoError)
    /\ UNCHANGED <<request, rheld, storeVars, handlerVars, hashIdVars,
                   lookasideVars, atomicVars, schemaVars, resolveVars,
                   procVars>>

\* next() on the generator.  The first one runs the body up to its first
\* yield: cursor.execute on the cursor with_cursor has closed, which an
\* sqlite3 module that keeps track of closed cursors refuses with
\* ProgrammingError and one that does not runs on the table as it is now;
\* then fetchall and the first handle.  The later ones yield the handles
\* fetched, in order, and end the generator after the last.
IterNext(closedCursorRaises) ==
    /\ iter.state \in {"created", "running"}
    /\ IF iter.state = "created" /\ closedCursorRaises
       THEN /\ iter' = [iter EXCEPT !.state = "raised"]
            /\ rcall' = RequestCall("next", 0, Error("ProgrammingError", 0))
       ELSE LET rows == IF iter.state = "created"
                        THEN IdsInOrder({r.id : r \in request})
                        ELSE iter.buf
            IN  IF rows = <<>>
                THEN /\ iter' = [iter EXCEPT !.state = "done", !.buf = <<>>]
                     /\ rcall' = RequestCall("next", 0, Error("StopIteration", 0))
                ELSE /\ iter' = [iter EXCEPT !.state = "running",
                                             !.buf = Tail(rows),
                                             !.out = Append(@, Head(rows))]
                     /\ rcall' = RequestCall("next", Head(rows), NoError)
    /\ UNCHANGED <<request, rheld, storeVars, handlerVars, hashIdVars,
                   lookasideVars, atomicVars, schemaVars, resolveVars,
                   procVars>>

\* ------------------------------------------------------------ specifications
Init ==
    /\ task = {}
    /\ now = 0
    /\ nseq = 0
    /\ held = {}
    /\ last = [op |-> "none", queue |-> "", except |-> {}, pre |-> {},
               result |-> NoTask]
    /\ hstate = "IDLE"
    /\ current = NoTask
    /\ opres = Unfired
    /\ invoked = <<>>
    /\ hresult = Delivered("none", 0)
    /\ hstore = {}
    /\ inserted = {}
    /\ kept = {}
    /\ hcall = HashCall("none", <<>>, {})
    /\ hash = {}
    /\ files = [f \in Files |-> File("absent", {})]
    /\ stores = <<>>
    /\ lcall = LookasideCall("none", "", "none")
    /\ raised = NoError
    /\ available = {}
    /\ tables = AllTables
    /\ flag = {}
    /\ available_upgrade = {}
    /\ installed = {}
    /\ fset = [n \in FlagNames |-> FlagUnset]
    /\ request = {}
    /\ rheld = {}
    /\ rcall = RequestCall("none", 0, NoError)
    /\ iter = NoGenerator
    /\ lstate = "IDLE"
    /\ warning = <<>>
    /\ ures = Resolved(NoName, NoName, NoName, NoName)
    /\ holders = {}
    /\ pstate = [p \in Procs |-> "idle"]
    /\ pmsg = [p \in Procs |-> Message(FALSE, <<>>)]
    /\ pwork = [p \in Procs |-> FALSE]

Next ==
    \/ \E q \in Queues : AddTask(q, nseq)
    \/ \E q \in Queues : CallGetNextTask(q)
    \/ \E h \in held : Remove(h)
    \/ \E E \in SUBSET held : ClearTasks(E)

\* The store and its caller.
Spec == Init /\ [][Next]_vars

\* A handler draining its queue while tasks are enqueued.
HandlerNext ==
    \/ \E q \in Queues : AddTask(q, nseq)
    \/ HandleTasks
    \/ \E s \in 1..MaxAdds, outcome \in {"ok", "fail"} : Fire(s, outcome)

HandlerSpec == Init /\ [][HandlerNext]_vars

\* A handler every one of whose per-task operations succeeds, the outstanding
\* one in the end.
SettleCurrent ==
    /\ hstate = "DRAINING"
    /\ Fire(SeqOf(task, current.id), "ok")

HandlerLiveNext ==
    \/ \E q \in Queues : AddTask(q, nseq)
    \/ HandleTasks
    \/ \E s \in 1..MaxAdds : Fire(s, "ok")

HandlerLiveSpec ==
    Init /\ [][HandlerLiveNext]_vars /\ WF_vars(SettleCurrent)

\* A HashIdStore and its caller.
HashIdNext ==
    \/ \E items \in Dicts : SetHashIds(items)
    \/ ClearHashIds

HashIdSpec == Init /\ [][HashIdNext]_vars

\* The sequences of ids add_available is called with.
IdLists ==
    {<<>>} \cup {<<i>> : i \in Ids}
           \cup {<<x[1], x[2]>> : x \in {y \in Ids \X Ids : y[1] # y[2]}}

\* A PackageStore whose caller hands it ill-formed arguments too.  The calls
\* that return write one pair each here; HashIdSpec has the others.
AtomicNext ==
    \/ \E items \in Dicts : \E bad \in 0..Len(items) :
         (bad # 0 \/ Len(items) <= 1) /\ SetHashIdsCall(items, bad)
    \/ ClearHashIds
    \/ \E ids \in IdLists : \E bad \in 0..Len(ids) : AddAvailable(ids, bad)
    \/ ClearAvailable

AtomicSpec == Init /\ [][AtomicNext]_vars

\* A handler resolving its lookaside database over the files it is offered,
\* and the store it attaches them to.
ResolveNext ==
    \/ \E f \in Files, kind \in {"junk", "nohash", "badhash"} :
         CreateFile(f, kind)
    \/ \E f \in Files, id \in {0, 1} : WriteLookaside(f, <<Pair("h1", id)>>)
    \/ PrimarySetHashIds(<<Pair("h1", 2)>>)
    \/ UseHashIdDb
    \/ \E uuid \in Uuids, codename \in Codenames, arch \in Archs :
         GotServerUuid(uuid, codename, arch)

ResolveSpec == Init /\ [][ResolveNext]_vars

\* A handler whose caller resolves the lookaside database and runs it, in
\* any order, while tasks are enqueued.
RunNext ==
    \/ \E q \in Queues : AddTask(q, nseq)
    \/ CreateFile("L1", "junk")
    \/ WriteLookaside("L1", <<Pair("h1", 1)>>)
    \/ UseHashIdDb
    \/ \E uuid \in Uuids : GotServerUuid(uuid, "c1", "arch")
    \/ Run
    \/ \E s \in 1..MaxAdds, outcome \in {"ok", "fail"} : Fire(s, outcome)

RunSpec == Init /\ [][RunNext]_vars

\* The processes started for one queue on one data path, and the store.
ProcNext ==
    \/ AddTask(QueueName, nseq)
    \/ \E p \in Procs, quiet \in BOOLEAN : RunTaskHandler(p, quiet)
    \/ \E p \in Procs : ProcRun(p)
    \/ \E p \in Procs, s \in 1..MaxAdds, outcome \in {"ok", "fail"} :
         ProcFire(p, s, outcome)
    \/ \E p \in Procs : ProcExit(p)
    \/ \E p \in Procs : Restart(p)

ProcSpec == Init /\ [][ProcNext]_vars

\* Tasks and requests written and read back through their handles; a task
\* is removed through the handle get_next_task has just returned.
RoundTripNext ==
    \/ AddTask(QueueName, nseq)
    \/ CallGetNextTask(QueueName)
    \/ \E h \in held : h = last.result /\ last.op = "get_next_task" /\ Remove(h)
    \/ \E hashes \in OrderedHashLists : AddHashIdRequest(hashes)

RoundTripSpec == Init /\ [][RoundTripNext]_vars

\* The flags of a PackageStore, a second instance opened on its file, and
\* the tasks and ids written meanwhile.
FlagNext ==
    \/ \E name \in FlagNames, value \in BOOLEAN : SetFlag(name, value)
    \/ AddTask(QueueName, nseq)
    \/ AddAvailable(<<2>>, 0)
    \/ Reopen

FlagSpec == Init /\ [][FlagNext]_vars

\* The requests of a store and the fields set through their handles.
AccessorNext ==
    \/ AddHashIdRequest(<<"h1">>)
    \/ \E id \in rheld : GetHashIdRequest(id)
    \/ \E id \in rheld : RequestRemove(id)
    \/ \E id \in rheld, value \in FieldValues : SetMessageId(id, value)
    \/ \E id \in rheld : SetTimestamp(id, now + 1)

AccessorSpec == Init /\ [][AccessorNext]_vars

\* The three sets of package ids and the removals from them.
RemoveNext ==
    \/ \E id \in Ids : AddAvailable(<<id>>, 0)
    \/ \E id \in {1, 2} : AddAvailableUpgrades(<<id>>)
    \/ \E id \in {1, 2} : AddInstalled(<<id>>)
    \/ \E ids \in IdLists : RemoveAvailable(ids)
    \/ \E ids \in IdLists : RemoveAvailableUpgrades(ids)
    \/ \E ids \in IdLists : RemoveInstalled(ids)

RemoveSpec == Init /\ [][RemoveNext]_vars

\* A PackageStore, its caller, and second instances opened on its file.
ReopenNext ==
    \/ AddTask(QueueName, nseq)
    \/ \E h \in Hashes : PrimarySetHashIds(<<Pair(h, 1)>>)
    \/ \E value \in BOOLEAN : SetFlag("f1", value)
    \/ AddAvailable(<<2>>, 0)
    \/ AddHashIdRequest(<<"h1">>)
    \/ Reopen

ReopenSpec == Init /\ [][ReopenNext]_vars

\* A PackageStore and the caller of its request API.
RequestNext ==
    \/ \E hashes \in HashLists : AddHashIdRequest(hashes)
    \/ \E id \in RequestIds : GetHashIdRequest(id)
    \/ \E id \in rheld : RequestRemove(id)
    \/ ClearHashIdRequests

RequestSpec == Init /\ [][RequestNext]_vars

\* A PackageStore and a caller that iterates over its requests while it adds
\* and removes some.
IteratingNext ==
    \/ \E hashes \in HashLists : AddHashIdRequest(hashes)
    \/ \E id \in rheld : RequestRemove(id)
    \/ ClearHashIdRequests
    \/ IterHashIdRequests
    \/ \E closedCursorRaises \in BOOLEAN : IterNext(closedCursorRaises)

IterSpec == Init /\ [][IteratingNext]_vars

\* A PackageStore, the files offered to it as lookaside databases, and its
\* caller.
LookasideNext ==
    \/ \E f \in Files, kind \in {"junk", "nohash", "badhash"} :
         CreateFile(f, kind)
    \/ \E f \in Files, items \in {d \in Dicts : Len(d) <= 1} :
         WriteLookaside(f, items)
    \/ \E f \in Files : AddHashIdDb(f)
    \/ \E f \in Files : CheckFile(f)
    \/ \E items \in Dicts : PrimarySetHashIds(items)
    \/ PrimaryClearHashIds

LookasideSpec == Init /\ [][LookasideNext]_vars

\* ------------------------------------------------------------ properties
InTable(id) == \E r \in task : r.id = id

\* C1: in every state the store can reach through add_task, get_next_task,
\* remove and clear_tasks calls, get_next_task(queue) is None exactly when
\* the table holds no task of the queue, and otherwise it is a task of that
\* queue and the one enqueued first among those still in the table; the
\* value a get_next_task call returned is that task.
C1_NextTaskIsOldest ==
    /\ \A q \in Queues :
         LET rows == QueueRows(task, q)
             h == GetNextTask(q)
         IN  /\ (h = NoTask) <=> (rows = {})
             /\ h # NoTask =>
                  /\ h.queue = q
                  /\ \E r \in rows : /\ r.id = h.id
                                     /\ \A o \in rows : r.seq <= o.seq
    /\ last.op = "get_next_task" => last.result = GetNextTask(last.queue)

\* A get_next_task call has returned the second task enqueued, B, after the
\* first, A, was removed, while a third, C, of the same queue and with B's
\* timestamp is waiting.
C1_Witness ==
    /\ last.op = "get_next_task"
    /\ last.result # NoTask
    /\ \E b, c \in QueueRows(task, last.queue) :
         /\ b.id = last.result.id
         /\ b.seq = 2
         /\ c.seq = 3
         /\ c.timestamp = b.timestamp
    /\ \A r \in task : r.seq # 1

\* C6: after clear_tasks(except_tasks), each queue holds exactly those of
\* the tasks it held before whose id is the id of a handle in except_tasks;
\* after a clear with no handle excepted every queue is empty.
C6_ClearKeepsExactlyExcept ==
    last.op = "clear_tasks" =>
      /\ \A q \in Queues :
           QueueRows(task, q) =
             {r \in QueueRows(last.pre, q) : \E h \in last.except : h.id = r.id}
      /\ last.except = {} => \A q \in Queues : GetNextTask(q) = NoTask

\* A queue held T1, T2 and T3, clear_tasks was called with T2's handle alone,
\* and the queue now holds T2 alone.
C6_Witness ==
    /\ last.op = "clear_tasks"
    /\ Cardinality(last.except) = 1
    /\ \E q \in Queues :
         /\ {r.seq : r \in QueueRows(last.pre, q)} = {1, 2, 3}
         /\ {r.seq : r \in QueueRows(task, q)} = {2}
         /\ \A h \in last.except : h = PackageTask(task, SelectNextTask(task, q))

C2_FailureStopsDraining ==
    hstate = "FAILED" =>
      LET f == hresult.seq
          h == GetNextTask(QueueName)
      IN  /\ hresult.kind = "failure"
          /\ opres[f] = "fail"
          /\ invoked # <<>>
          /\ invoked[Len(invoked)] = f
          /\ h # NoTask
          /\ SeqOf(task, h.id) = f
          /\ \A r \in QueueRows(task, QueueName) : r.seq >= f
          /\ \A i \in DOMAIN invoked : invoked[i] <= f

\* Of three tasks of the queue the first succeeded and is gone, the second
\* failed and is the next task, the third was never handed to handle_task.
C2_Witness ==
    /\ hstate = "FAILED"
    /\ hresult = Delivered("failure", 2)
    /\ invoked = <<1, 2>>
    /\ {r.seq : r \in QueueRows(task, QueueName)} = {2, 3}

\* C3: while the loop is suspended, the task it is suspended on is in the
\* store, its result has not fired and get_next_task returns it, whatever
\* other results have fired; and a step removes a task from the store only if
\* handle_task was called with it and its result fired successfully.
C3_RemovedOnlyAfterSuccess ==
    /\ [](hstate = "DRAINING" =>
            /\ current # NoTask
            /\ InTable(current.id)
            /\ opres[SeqOf(task, current.id)] = "unfired"
            /\ GetNextTask(QueueName) = current)
    /\ [][\A r \in task :
            r \notin task' =>
              /\ opres'[r.seq] = "ok"
              /\ r.seq \in Range(invoked')]_vars

\* The loop is suspended on the first task while the result of the second,
\* which is still queued, has fired.
C3_Witness ==
    /\ hstate = "DRAINING"
    /\ current.data = 0
    /\ SeqOf(task, current.id) = 1
    /\ opres[2] = "ok"
    /\ \E r \in QueueRows(task, QueueName) : r.seq = 2
    /\ GetNextTask(QueueName) = current

InFlight == {s \in Range(invoked) : opres[s] = "unfired"}

\* C4: at most one task handed to handle_task has a result that has not
\* fired; every task handed to handle_task before the latest one has
\* succeeded and is out of the store; handle_task is called with the tasks in
\* enqueue order, never twice with one and never skipping one that is still
\* queued; and after a run that ended DONE every call succeeded.
C4_OneOperationInFlight ==
    /\ Cardinality(InFlight) <= 1
    /\ \A i \in 1..(Len(invoked) - 1) :
         /\ opres[invoked[i]] = "ok"
         /\ \A r \in task : r.seq # invoked[i]
    /\ \A i, j \in DOMAIN invoked : i < j => invoked[i] < invoked[j]
    /\ invoked # <<>> =>
         \A r \in QueueRows(task, QueueName) : r.seq >= invoked[Len(invoked)]
    /\ hstate = "DONE" =>
         \A i \in DOMAIN invoked :
           /\ opres[invoked[i]] = "ok"
           /\ \A r \in task : r.seq # invoked[i]

\* A run handed three tasks to handle_task, one after the other, and is DONE.
C4_Witness ==
    /\ hstate = "DONE"
    /\ invoked = <<1, 2, 3>>
    /\ hresult.kind = "success"
    /\ task = {}

\* C5: when every outstanding operation eventually succeeds, a run that is
\* draining eventually is DONE with no task of the handler's queue in the
\* store and get_next_task returning None; and handle_tasks called on an
\* empty queue is DONE in that very step.
C5_DrainTerminates ==
    /\ (hstate = "DRAINING") ~>
         (/\ hstate = "DONE"
          /\ QueueRows(task, QueueName) = {}
          /\ GetNextTask(QueueName) = NoTask)
    /\ [][(QueueRows(task, QueueName) = {} /\ HandleTasks) =>
            (hstate' = "DONE" /\ hresult'.kind = "success")]_vars

\* A run has drained two tasks and is DONE; a task of the other queue is
\* still in the store.
C5_Witness ==
    /\ hstate = "DONE"
    /\ Len(invoked) = 2
    /\ QueueRows(task, QueueName) = {}
    /\ QueueRows(task, "other") # {}

\* The attached stores, by position, whose hash table holds h.
Holding(h) ==
    {i \in DOMAIN stores : \E r \in files[stores[i]].rows : r.hash = h}

\* C8 as claimed: get_hash_id(hash) on the PackageStore is the id the first
\* attached lookaside store holding the hash maps it to, whatever that id
\* is and whatever later stores and the primary mapping hold; it is the
\* primary mapping's id when no attached store holds the hash, and None
\* only when the primary does not hold it either.
C8_FirstLookasideWins ==
    \A h \in Hashes :
      IF Holding(h) # {}
      THEN LET first == CHOOSE i \in Holding(h) : \A j \in Holding(h) : i <= j
           IN  PackageGetHashId(h) = GetHashIdIn(files[stores[first]].rows, h)
      ELSE PackageGetHashId(h) = GetHashIdIn(hash, h)

\* C9 as claimed: every pair a set_hash_ids call wrote and no later
\* set_hash_ids call overwrote (with another id for its hash or another hash
\* for its id) is read back by get_hash_id and by get_id_hash; after
\* clear_hash_ids both return None for every key.
C9_InsertedPairsReadable ==
    /\ \A p \in inserted : GetHashId(p.hash) = p.id /\ GetIdHash(p.id) = p.hash
    /\ hcall.op = "clear_hash_ids" =>
         /\ \A h \in Hashes : GetHashId(h) = NoId
         /\ \A i \in Ids : GetIdHash(i) = NoHash

\* C9 as amended: every pair set_hash_ids wrote and no pair written after it
\* overwrote, in a later call or later in the same call, is read back by
\* get_hash_id and by get_id_hash, and they read back nothing else; after
\* clear_hash_ids both return None for every key.
C9_KeptPairsReadable ==
    /\ \A p \in kept : GetHashId(p.hash) = p.id /\ GetIdHash(p.id) = p.hash
    /\ \A h \in Hashes : GetHashId(h) # NoId => Pair(h, GetHashId(h)) \in kept
    /\ \A i \in Ids : GetIdHash(i) # NoHash => Pair(GetIdHash(i), i) \in kept
    /\ hcall.op = "clear_hash_ids" =>
         /\ \A h \in Hashes : GetHashId(h) = NoId
         /\ \A i \in Ids : GetIdHash(i) = NoHash

\* A set_hash_ids call has given a hash that had an id another id, an earlier
\* pair of another hash is still there, and both are read back.
C9_Witness ==
    /\ hcall.op = "set_hash_ids"
    /\ Len(hcall.items) = 1
    /\ \E r \in hcall.pre :
         /\ r.hash = hcall.items[1].hash
         /\ r.id # hcall.items[1].id
    /\ Cardinality(kept) = 2
    /\ \A p \in kept : GetHashId(p.hash) = p.id /\ GetIdHash(p.id) = p.hash

\* C10: no two rows of the hash table share a hash or an id; and after
\* set_hash_ids a row that was there before and has the hash of a written
\* pair with another id, or the id of a written pair with another hash, is
\* gone (unless the same call wrote that very row again afterwards), while
\* the pair written last is there.
C10_PartialBijection ==
    /\ \A r1, r2 \in hstore :
         (r1.hash = r2.hash \/ r1.id = r2.id) => r1 = r2
    /\ hcall.op = "set_hash_ids" =>
         LET items == hcall.items
         IN  /\ \A r \in hcall.pre : \A k \in DOMAIN items :
                   (/\ Overwrites(items[k], Pair(r.hash, r.id))
                    /\ \A j \in DOMAIN items :
                         j > k => items[j] # Pair(r.hash, r.id))
                     => r \notin hstore
             /\ items # <<>> =>
                   [id |-> items[Len(items)].id,
                    hash |-> items[Len(items)].hash] \in hstore

\* A set_hash_ids call has written an id that another hash had together with
\* a hash that had another id: two rows went, one came.
C10_Witness ==
    /\ hcall.op = "set_hash_ids"
    /\ Len(hcall.items) = 1
    /\ Cardinality(hcall.pre) = 2
    /\ \A r \in hcall.pre : Overwrites(hcall.items[1], Pair(r.hash, r.id))
    /\ hstore = {[id |-> hcall.items[1].id, hash |-> hcall.items[1].hash]}

\* C11: a call that raised left the table it writes, and with it every
\* read, as they were before the call, whatever it had written before it
\* raised, and the caller got the exception the body raised; a call that
\* returned wrote all it was given (set_hash_ids every pair no later pair of
\* the call overwrote, add_available every id); and the step of a call that
\* raises changes no table.
C11_WithCursorAtomic ==
    /\ [](
         /\ (raised # NoError /\ hcall.op = "set_hash_ids") =>
              /\ hstore = hcall.pre
              /\ raised =
                   SetHashIdsBody(hcall.pre, hcall.items, raised.at).raised
              /\ \A h \in Hashes : GetHashId(h) = GetHashIdIn(hcall.pre, h)
              /\ \A i \in Ids : GetIdHash(i) = GetIdHashIn(hcall.pre, i)
         /\ (raised # NoError /\ hcall.op = "add_available") =>
              /\ available = hcall.pre
              /\ raised =
                   AddAvailableBody(hcall.pre, hcall.items, raised.at).raised
         /\ (raised = NoError /\ hcall.op = "set_hash_ids") =>
              \A p \in KeptAfter({}, hcall.items) :
                GetHashId(p.hash) = p.id /\ GetIdHash(p.id) = p.hash
         /\ (raised = NoError /\ hcall.op = "add_available") =>
              available = hcall.pre \cup Range(hcall.items)
       )
    /\ [][raised' # NoError => (hstore' = hstore /\ available' = available)]_vars

\* A set_hash_ids call given two pairs wrote the first, which gave a hash
\* of the table a new id, and raised at the second; the hash has its old id.
C11_Witness ==
    /\ hcall.op = "set_hash_ids"
    /\ raised = Error("IntegrityError", 2)
    /\ \E r \in hcall.pre :
         /\ r.hash = hcall.items[1].hash
         /\ r.id # hcall.items[1].id
         /\ GetHashId(r.hash) = r.id
    /\ available # {}

\* The files that are there and are no hash=>id store: not an SQLite
\* database, or a database without a hash table of columns id and hash.
NotAStore == {"junk", "nohash", "badhash"}

\* C12 as claimed: add_hash_id_db on a file that is no hash=>id store raises
\* InvalidHashIdDb and leaves the list of attached stores, has_hash_id_db
\* and every get_hash_id result as they were; and a call that changes the
\* list appends, at its end, the file it was given, which passes
\* check_sanity.
C12_InvalidFileNotAttached ==
    [][\A f \in Files : AddHashIdDb(f) =>
          /\ files[f].kind \in NotAStore =>
               /\ lcall'.raised = "InvalidHashIdDb"
               /\ stores' = stores
               /\ (Len(stores') > 0) = (Len(stores) > 0)
               /\ \A h \in Hashes : PackageGetHashId(h)' = PackageGetHashId(h)
          /\ stores' # stores =>
               /\ stores' = Append(stores, f)
               /\ CheckSanity(files'[f]) = "none"]_vars

\* C13 as claimed: check_sanity, called on its own or by add_hash_id_db,
\* raises InvalidHashIdDb for every file that is no hash=>id store, the
\* database without a hash table included.
C13_CheckSanityRejectsNonStores ==
    [][\A f \in Files :
          ((CheckFile(f) \/ AddHashIdDb(f)) /\ files[f].kind \in NotAStore)
            => lcall'.raised = "InvalidHashIdDb"]_vars

\* C14: get_hash_id_request(id) raised UnknownHashIDRequest exactly when the
\* table holds no request with that id, and otherwise gave the caller the
\* handle of that id; a request the caller holds a handle of and the table
\* does not hold was removed or cleared, and asking for it raises; and the
\* call, raising or not, leaves the table as it was.
C14_UnknownRequestRaises ==
    /\ [](rcall.op = "get_hash_id_request" =>
            /\ (rcall.raised = Error("UnknownHashIDRequest", 0))
                 <=> (\A r \in request : r.id # rcall.id)
            /\ (rcall.raised = NoError)
                 <=> (\E r \in request : r.id = rcall.id)
            /\ rcall.raised = NoError => rcall.id \in rheld)
    /\ [][\A id \in RequestIds : GetHashIdRequest(id) =>
            /\ request' = request
            /\ (id \in rheld /\ \A r \in request : r.id # id)
                 => rcall'.raised = Error("UnknownHashIDRequest", 0)]_vars

\* The caller asked for a request it had removed through its handle while
\* two other requests are in the table, and the call raised.
C14_Witness ==
    /\ rcall = RequestCall("get_hash_id_request", 2,
                           Error("UnknownHashIDRequest", 0))
    /\ 2 \in rheld
    /\ {r.id : r \in request} = {1, 3}

\* C19 as claimed: the generator iter_hash_id_requests returned yields the
\* handles of the ids the table held when it was called, in order and
\* whatever was added or removed since, because the call read them inside
\* its transaction: iterating never raises, and what was yielded followed
\* by what is still to be yielded is the ids of call time.
C19_IterYieldsCallTimeSnapshot ==
    /\ iter.state # "raised"
    /\ iter.state \in {"running", "done"} =>
         iter.out \o iter.buf = iter.atcall

\* C20: a second PackageStore opened on the file of the store creates and
\* drops no table and leaves every table as it was, so that every mapping,
\* available id, flag, request and task written before is read back through
\* it.
C20_ReopenKeepsContents ==
    [][Reopen =>
         /\ tables' = tables
         /\ hash' = hash /\ flag' = flag /\ available' = available
         /\ request' = request /\ task' = task
         /\ \A h \in Hashes : GetHashIdIn(hash', h) = GetHashIdIn(hash, h)
         /\ \A n \in FlagNames : GetFlagIn(flag', n) = GetFlagIn(flag, n)
         /\ NextTaskOf(task', QueueName) = NextTaskOf(task, QueueName)
         /\ \A r \in request : SelectRequest(request', r.id) = {r}]_vars

\* A second instance has been opened on a store that holds a mapping, an
\* available id, a flag set to true, a request and two tasks, and the first
\* task is the next one.
C20_Witness ==
    /\ last.op = "PackageStore"
    /\ GetHashIdIn(hash, "h1") = 1
    /\ available = {2}
    /\ GetFlagIn(flag, "f1")
    /\ request # {}
    /\ Cardinality(task) = 2
    /\ last.pre = task
    /\ NextTaskOf(task, QueueName).data = 0

\* C16: a use_hash_id_db that finds no server UUID, no code-name or no
\* architecture, or no file of the computed name, ends successfully with the
\* list of attached stores and every file as they were (has_hash_id_db as
\* before, false when nothing was attached) and has logged one warning that
\* names the missing part of the identity, and none for a missing file.
C16_GapsAttachNothing ==
    [][\A uuid \in Uuids, codename \in Codenames, arch \in Archs :
         LET f == DetermineHashIdDbFilename(uuid, codename, arch).name
         IN  (/\ GotServerUuid(uuid, codename, arch)
              /\ (f = NoName \/ files[f].kind = "absent"))
             => /\ lstate' = "RESOLVED"
                /\ stores' = stores
                /\ files' = files
                /\ (Len(stores') > 0) = (Len(stores) > 0)
                /\ warning' =
                     (CASE uuid = NoName -> <<NoUuidWarning>>
                        [] uuid # NoName /\ codename = NoName ->
                             <<NoCodenameWarning>>
                        [] uuid # NoName /\ codename # NoName /\ arch = NoName ->
                             <<NoArchWarning>>
                        [] OTHER -> <<>>)]_vars

\* A use_hash_id_db whose identity was complete found no file of the computed
\* name, after an earlier one had attached a store: the store is still the
\* only one attached, the file is still missing and nothing was logged.
C16_Witness ==
    /\ lstate = "RESOLVED"
    /\ ures = Resolved("uuid", "c2", "arch", "L2")
    /\ files["L2"].kind = "absent"
    /\ stores = <<"L1">>
    /\ warning = <<>>

\* C18 as claimed: a use_hash_id_db that finds a file of the computed name
\* that is no hash=>id store logs the warning, removes the file, attaches
\* nothing and ends successfully; one that finds a store attaches it at the
\* end of the list, and get_hash_id then returns the id the store has for
\* each of its hashes that no store attached before it holds.
C18_InvalidRemovedValidAttached ==
    [][\A uuid \in Uuids, codename \in Codenames, arch \in Archs :
         LET f == DetermineHashIdDbFilename(uuid, codename, arch).name
         IN  (/\ GotServerUuid(uuid, codename, arch)
              /\ f # NoName
              /\ files[f].kind # "absent")
             => /\ lstate' = "RESOLVED"
                /\ files[f].kind \in NotAStore =>
                     /\ warning' = <<InvalidWarning(f)>>
                     /\ files'[f].kind = "absent"
                     /\ stores' = stores
                /\ files[f].kind \notin NotAStore =>
                     /\ stores' = Append(stores, f)
                     /\ \A r \in files[f].rows :
                          Holding(r.hash) = {} =>
                            PackageGetHashId(r.hash)' = r.id]_vars

C15_OneHandlerPerQueue ==
    /\ [](/\ Cardinality(holders) <= 1
          /\ \A p \in Procs :
               /\ pstate[p] = "started" => p \in holders
               /\ pstate[p] = "refused" =>
                    /\ p \notin holders
                    /\ ~pwork[p]
                    /\ IF pmsg[p].quiet
                       THEN pmsg[p].text = <<>>
                       ELSE \E i \in 1..(Len(pmsg[p].text) - 1) :
                              /\ pmsg[p].text[i] = QueueName
                              /\ pmsg[p].text[i + 1] = "is already running")
    /\ [][\A p \in Procs, quiet \in BOOLEAN :
            (RunTaskHandler(p, quiet) /\ holders # {}) =>
              /\ pstate'[p] = "refused"
              /\ holders' = holders
              /\ task' = task /\ invoked' = invoked]_vars
    /\ [][(invoked' \notin {invoked, <<>>} \/ \E r \in task : r \notin task')
            => \E p \in holders : pstate[p] = "started"]_vars

\* While the first process is draining, a second one was started, not in
\* quiet mode, and refused.
C15_Witness ==
    /\ holders = {"p1"}
    /\ pstate["p1"] = "started" /\ pwork["p1"]
    /\ hstate = "DRAINING"
    /\ pstate["p2"] = "refused"
    /\ pmsg["p2"] = Message(FALSE, AlreadyRunning(FALSE))

C22_FlagReadsLastSet ==
    /\ [](\A name \in FlagNames :
            GetFlagIn(flag, name) =
              (IF fset[name].set THEN fset[name].value ELSE FALSE))
    /\ [][\A name \in FlagNames, value \in BOOLEAN :
            SetFlag(name, value) =>
              \A other \in FlagNames \ {name} :
                GetFlagIn(flag', other) = GetFlagIn(flag, other)]_vars

\* One flag set to true and then to false, the other set to true, and the
\* store reopened.
C22_Witness ==
    /\ fset["f1"] = FlagSet(FALSE)
    /\ fset["f2"] = FlagSet(TRUE)
    /\ last.op = "PackageStore"
    /\ flag = {[name |-> "f1", value |-> FALSE], [name |-> "f2", value |-> TRUE]}

\* C23: the ids add_task assigned are increasing in the order of the calls,
\* and a handle's id is the id of no other task than the one the handle was
\* obtained for.  The payloads are the numbers of the add_task calls.
C23_IdsNeverReused ==
    /\ \A h1 \in held, h2 \in held : h1.data < h2.data => h1.id < h2.id
    /\ \A h \in held : \A r \in task : r.id = h.id => Loads(r.data) = h.data

\* C24: when message_id or timestamp is set through a handle of a request
\* in the table, every handle of that id reads the value set from then on,
\* and the hashes, the other field and the other requests read as before.
C24_AccessorsReadThrough ==
    /\ [][\A id \in rheld, value \in FieldValues :
            (SetMessageId(id, value) /\ SelectRequest(request, id) # {}) =>
              /\ \A h \in rheld : h = id =>
                   RequestField(request', h, "message_id") = Read(NoError, value)
              /\ RequestHashes(request', id) = RequestHashes(request, id)
              /\ RequestField(request', id, "timestamp")
                   = RequestField(request, id, "timestamp")
              /\ \A r \in request : r.id # id => r \in request']_vars
    /\ [][\A id \in rheld, value \in FieldValues :
            (SetTimestamp(id, value) /\ SelectRequest(request, id) # {}) =>
              /\ \A h \in rheld : h = id =>
                   RequestField(request', h, "timestamp") = Read(NoError, value)
              /\ RequestHashes(request', id) = RequestHashes(request, id)
              /\ RequestField(request', id, "message_id")
                   = RequestField(request, id, "message_id")
              /\ \A r \in request : r.id # id => r \in request']_vars
    /\ [][\A id \in RequestIds :
            (/\ SelectRequest(request, id) # {}
             /\ rcall'.op \notin {"set_message_id", "set_timestamp", "remove",
                                  "clear_hash_id_requests"})
              => SelectRequest(request', id) = SelectRequest(request, id)]_vars

\* Of two requests in the table the first has had both fields set, the
\* message id twice, and was then looked up again.
C24_Witness ==
    /\ RequestField(request, 1, "message_id") = Read(NoError, 2)
    /\ RequestField(request, 1, "timestamp") = Read(NoError, 1)
    /\ RequestField(request, 2, "message_id") = Read(NoError, NoId)
    /\ rcall = RequestCall("get_hash_id_request", 1, NoError)

\* C25: no add_hash_id_db call, whether it attaches the file or raises, and
\* no set_hash_ids or clear_hash_ids call on the PackageStore changes what a
\* file that is there holds, or makes a table in it.
C25_LookasideNeverWritten ==
    [][(\/ \E f \in Files : AddHashIdDb(f)
        \/ \E items \in Dicts : PrimarySetHashIds(items)
        \/ PrimaryClearHashIds)
         => \A f \in Files : files[f].kind # "absent" => files'[f] = files[f]]_vars

\* What a removal of ids from a set may make of it: the listed ids are out,
\* the members not listed are in, and nothing else is.
Removed(pre, post, ids) ==
    /\ \A x \in Range(ids) : x \notin post
    /\ \A x \in pre : x \notin Range(ids) => x \in post
    /\ post \subseteq pre
    /\ ids = <<>> => post = pre

\* C26: remove_available, remove_available_upgrades and remove_installed
\* raise nothing, take the listed ids out of their own set, members or not,
\* keep its other members, change nothing for an empty list, and leave the
\* other two sets as they were.
C26_RemoveExactlyListed ==
    /\ [](/\ hcall.op = "remove_available" =>
               raised = NoError /\ Removed(hcall.pre, available, hcall.items)
          /\ hcall.op = "remove_available_upgrades" =>
               raised = NoError
                 /\ Removed(hcall.pre, available_upgrade, hcall.items)
          /\ hcall.op = "remove_installed" =>
               raised = NoError /\ Removed(hcall.pre, installed, hcall.items))
    /\ [][/\ hcall'.op = "remove_available" =>
               available_upgrade' = available_upgrade /\ installed' = installed
          /\ hcall'.op = "remove_available_upgrades" =>
               available' = available /\ installed' = installed
          /\ hcall'.op = "remove_installed" =>
               available' = available
                 /\ available_upgrade' = available_upgrade]_vars

\* From three sets with members, a removal with no id, and a removal of a
\* member and a non-member that left another member.
C26_Witness ==
    \/ /\ hcall = HashCall("remove_installed", <<>>, installed)
       /\ installed # {} /\ available # {} /\ available_upgrade # {}
    \/ /\ hcall.op = "remove_available"
       /\ \E x \in Range(hcall.items) : x \in hcall.pre
       /\ \E x \in Range(hcall.items) : x \notin hcall.pre
       /\ available # {} /\ installed # {} /\ available_upgrade # {}

\* C27: add_hash_id_db leaves the primary mapping, and with it what
\* get_id_hash and get_hash_ids return; set_hash_ids and clear_hash_ids on
\* the PackageStore leave every file, and the id get_hash_id returns for a
\* hash that an attached lookaside store holds.
C27_OnlyGetHashIdUsesLookaside ==
    /\ [][(\E f \in Files : AddHashIdDb(f)) =>
            /\ hash' = hash
            /\ \A id \in Ids : GetIdHashIn(hash', id) = GetIdHashIn(hash, id)]_vars
    /\ [][((\E items \in Dicts : PrimarySetHashIds(items)) \/ PrimaryClearHashIds)
            => /\ files' = files /\ stores' = stores
               /\ \A h \in Hashes :
                    Holding(h) # {} => PackageGetHashId(h)' = PackageGetHashId(h)]_vars

=============================================================================
